---- MODULE Spec2Model ----
(***************************************************************************)
(* A model of neet/synchronous.py: the Landscape class (construction of    *)
(* the transition table, the lazy attractor/basin decomposition, the       *)
(* trajectory method) and the free function transitions.                   *)
(*                                                                         *)
(* Arrays are functions on 0..n-1 (numpy / Python indexing), Python lists  *)
(* used as stacks or results are sequences, a state vector is a sequence   *)
(* of coordinates.  An optional argument is <<>> (None) or <<x>>.          *)
(***************************************************************************)
EXTENDS Integers, Sequences, FiniteSets, TLC

\* ------------------------------------------------------------------ bounds
\* The largest state-space volume explored.
MaxVolume == 4
\* The largest number of dimensions of a state space.
MaxDim == 2
\* The largest step count handed to trajectory.
MaxSteps == 2
MaxNodes == 2
MaxGiveUp == 3

None == <<>>
Some(x) == <<x>>

\* ------------------------------------------------------- StateSpace (neet/statespace.py)
RECURSIVE Volume(_)
\* volume = product of the per-dimension bases
Volume(bases) ==
    IF bases = <<>> THEN 1 ELSE Head(bases) * Volume(Tail(bases))

\* the state vectors of a space: coordinate k lies in [0, b_k)
States(bases) ==
    {s \in [1..Len(bases) -> 0..MaxVolume - 1] :
        \A k \in 1..Len(bases) : s[k] < bases[k]}

RECURSIVE EncodeFrom(_, _, _)
EncodeFrom(bases, s, k) ==
    IF k > Len(bases) THEN 0
    ELSE s[k] + bases[k] * EncodeFrom(bases, s, k + 1)

\* StateSpace._unsafe_encode: mixed radix, coordinate 1 least significant
unsafe_encode(bases, s) == EncodeFrom(bases, s, 1)

RECURSIVE DecodeFrom(_, _, _)
DecodeFrom(bases, i, k) ==
    IF k > Len(bases) THEN <<>>
    ELSE <<i % bases[k]>> \o DecodeFrom(bases, i \div bases[k], k + 1)

\* StateSpace.decode on an index of [0, volume)
decode(bases, i) == DecodeFrom(bases, i, 1)

\* The value that marks an exhausted iterator.
Exhausted == <<-1>>

RECURSIVE Increment(_, _, _)
\* one step of the odometer: coordinate k is bumped, lower ones are reset
Increment(bases, s, k) ==
    IF k > Len(bases) THEN Exhausted
    ELSE IF s[k] + 1 < bases[k]
         THEN [j \in 1..Len(bases) |->
                  IF j < k THEN 0 ELSE IF j = k THEN s[k] + 1 ELSE s[j]]
         ELSE Increment(bases, s, k + 1)

\* StateSpace.__iter__: the first state, and the state after s
FirstState(bases) == [k \in 1..Len(bases) |-> 0]
NextState(bases, s) == Increment(bases, s, 1)

\* ------------------------------------------------------- networks (external)
Shapes ==
    {b \in UNION {[1..n -> 1..MaxVolume] : n \in 1..MaxDim} :
        /\ Volume(b) <= MaxVolume
        /\ Len(b) > 1 => \A k \in 1..Len(b) : b[k] >= 2}

UniformShape(n) == [k \in 1..n |-> 2]

\* An object that is no network at all.
NotANet == [isnet |-> FALSE]

\* A network: fixed-sized (it knows its own state space) or variable-sized
\* (a binary state space of the size asked for), with a deterministic update.
NetworksOn(f, b) ==
    {[isnet |-> TRUE, fixed |-> f, bases |-> b, update |-> u] :
        u \in [States(b) -> States(b)]}

Networks ==
    UNION {NetworksOn(TRUE, b) : b \in Shapes} \cup
    UNION {NetworksOn(FALSE, b) : b \in {c \in Shapes : c = UniformShape(Len(c))}}

\* A networkx.DiGraph over the nodes 0..n-1: the graph of a successor table.
DiGraphOf(t) ==
    [isnet |-> FALSE, nodes |-> DOMAIN t, edges |-> {<<x, t[x]>> : x \in DOMAIN t}]

DiGraphs ==
    {DiGraphOf(t) : t \in UNION {[0..n - 1 -> 0..n - 1] : n \in 1..MaxVolume}}

\* isinstance(net, nx.DiGraph)
is_digraph(n) == "edges" \in DOMAIN n

is_network(n) == n.isnet
is_fixed_sized(n) == n.fixed
\* net.state_space() / net.state_space(size)
state_space(n, sz) == IF n.fixed THEN n.bases ELSE UniformShape(sz[1])
\* net._unsafe_update(state): the successor state
unsafe_update(n, s) == n.update[s]

\* ------------------------------------------------------------------ state
VARIABLES
    net, size,            \* the arguments of Landscape(net, size) / transitions(net, size)
    pc,                   \* where the program is
    call,                 \* the call in progress or last finished, with its arguments
    ret,                  \* what the last finished call returned or raised
    self_bases,           \* the Landscape's own StateSpace
    self_transitions,     \* Landscape.__transitions (<<>> until assigned)
    self_expounded,       \* Landscape.__expounded
    self_basins,          \* Landscape.__basins (<<>> until assigned)
    self_attractors,      \* Landscape.__attractors (<<>> until assigned)
    transitions, i, it,   \* __setup: the array being filled, enumerate's index and state
    updated,              \* the states handed to the network's update, in call order
    gen_space, yielded,   \* transitions(): its state space; what a generator has yielded
    legacy_trans,         \* attractors(): its local trans, the list of transitions
    \* the locals of __expound
    visited, basins, basin_number, attractors, initial_state, state_stack,
    cycle, in_cycle, state, next_state, terminus, basin,
    expound_runs,         \* how many times __expound has been entered
    demanded,             \* the first of attractors / basins asked for ("none" so far)
    work,                 \* __expound's tally: marks and basin writes per index,
                          \* pushes, pops and paths started
    \* neet.boolean.randomnet
    logic_net, ps,        \* the network and the probabilities handed to a generator
    rcall,                \* the generator called, with its arguments
    rpc,                  \* where the generator is
    rret,                 \* what it returned or raised
    node,                 \* the row of the table being made
    new_table,            \* the rows made so far
    keep_trying, number_tried   \* the locals of the rejection loop

inputs == <<net, size>>
landscape == <<self_bases, self_transitions, self_expounded, self_basins, self_attractors>>
setup_locals == <<transitions, i, it>>
gen_locals == <<gen_space, yielded, legacy_trans>>
expound_locals ==
    <<visited, basins, basin_number, attractors, initial_state, state_stack,
      cycle, in_cycle, state, next_state, terminus, basin>>
history == <<updated, expound_runs, demanded, work>>

randomnet ==
    <<logic_net, ps, rcall, rpc, rret, node, new_table, keep_trying, number_tried>>

vars ==
    <<inputs, pc, call, ret, landscape, setup_locals, gen_locals,
      expound_locals, history, randomnet>>

\* the arguments of a call; the fields a call does not take keep these values
NoInit == [list |-> FALSE, state |-> <<>>, index |-> 0]
Call(op) == [op |-> op, init |-> NoInit, timesteps |-> None, encode |-> None]
CallTrajectory(init, timesteps, encode) ==
    [op |-> "trajectory", init |-> init, timesteps |-> timesteps, encode |-> encode]

NoRet == [kind |-> "none", val |-> <<>>, msg |-> ""]
Raised(e, m) == [kind |-> "error", val |-> e, msg |-> m]
Returned(k, v) == [kind |-> k, val |-> v, msg |-> ""]

\* an entry of np.empty that no assignment has reached
Unwritten == -1

\* the tally before __expound has done anything on a space of n indices
NoWork(n) ==
    [marks |-> [k \in 0..n - 1 |-> 0], writes |-> [k \in 0..n - 1 |-> 0],
     pushes |-> 0, pops |-> 0, paths |-> 0]

\* the values the locals of __expound hold while it is not running
ExpoundIdle ==
    /\ visited = <<>>
    /\ basins = <<>>
    /\ basin_number = 0
    /\ attractors = <<>>
    /\ initial_state = 0
    /\ state_stack = <<>>
    /\ cycle = <<>>
    /\ in_cycle = FALSE
    /\ state = 0
    /\ next_state = 0
    /\ terminus = 0
    /\ basin = 0

\* the locals of __expound go out of scope
ExpoundReset ==
    /\ visited' = <<>>
    /\ basins' = <<>>
    /\ basin_number' = 0
    /\ attractors' = <<>>
    /\ initial_state' = 0
    /\ state_stack' = <<>>
    /\ cycle' = <<>>
    /\ in_cycle' = FALSE
    /\ state' = 0
    /\ next_state' = 0
    /\ terminus' = 0
    /\ basin' = 0

\* no generator of randomnet has been called
NoRandomCall ==
    [via |-> "none", fn |-> "none", connections |-> "", fix_external |-> FALSE,
     make_irreducible |-> FALSE, fix_canalizing |-> FALSE, give_up_number |-> 0]

RandomIdle ==
    /\ rcall = NoRandomCall
    /\ rpc = "new"
    /\ rret = NoRet
    /\ node = 0
    /\ new_table = <<>>
    /\ keep_trying = FALSE
    /\ number_tried = 0

\* nothing of neet.synchronous has been called
SynchronousIdle ==
    /\ pc = "new"
    /\ call = Call("none")
    /\ ret = NoRet
    /\ self_bases = <<>>
    /\ self_transitions = <<>>
    /\ self_expounded = FALSE
    /\ self_basins = <<>>
    /\ self_attractors = <<>>
    /\ transitions = <<>>
    /\ i = 0
    /\ it = Exhausted
    /\ updated = <<>>
    /\ gen_space = <<>>
    /\ yielded = <<>>
    /\ legacy_trans = <<>>
    /\ ExpoundIdle
    /\ expound_runs = 0
    /\ demanded = "none"
    /\ work = NoWork(0)

\* something that is no LogicNetwork
NotALogicNetwork == [islogic |-> FALSE, size |-> 0]

Init ==
    /\ net \in Networks \cup DiGraphs \cup {NotANet}
    /\ size \in {None} \cup
               (IF net.isnet THEN {Some(Len(net.bases))} ELSE {Some(1)})
    /\ SynchronousIdle
    /\ logic_net = NotALogicNetwork
    /\ ps = None
    /\ RandomIdle

\* ------------------------------------------------------- Landscape.__init__
\* a size is accepted for a fixed sized network
SizeCheck_fixed_unchecked(n, sz) ==
    IF ~is_network(n) THEN Raised("TypeError", "net is not a network")
    ELSE IF ~is_fixed_sized(n) /\ sz = None
         THEN Raised("ValueError", "size must not be None for variable sized networks")
         ELSE NoRet

\* The argument checks shared by Landscape.__init__ and transitions:
\* the exception they raise, or NoRet when the arguments pass.
SizeCheck(n, sz) ==
    IF ~is_network(n) THEN Raised("TypeError", "net is not a network")
    ELSE IF is_fixed_sized(n)
         THEN (IF sz # None
               THEN Raised("ValueError", "size must be None for fixed sized networks")
               ELSE NoRet)
         ELSE (IF sz = None
               THEN Raised("ValueError",
                           "size must not be None for variable sized networks")
               ELSE NoRet)

\* Landscape.__init__ up to the head of __setup's loop
Landscape_init ==
    /\ pc = "new"
    /\ call' = Call("Landscape")
    /\ IF SizeCheck(net, size) # NoRet
       THEN /\ pc' = "raised"
            /\ ret' = SizeCheck(net, size)
            /\ UNCHANGED <<self_bases, setup_locals>>
       ELSE /\ self_bases' = state_space(net, size)
            /\ transitions' = [k \in 0..Volume(self_bases') - 1 |-> Unwritten]
            /\ i' = 0
            /\ it' = FirstState(self_bases')
            /\ pc' = "setup"
            /\ ret' = ret
    /\ UNCHANGED <<randomnet, inputs, self_transitions, self_expounded, self_basins,
                   self_attractors, gen_locals, expound_locals, history>>

\* the state is encoded without being updated
setup_entry_no_update(s) == unsafe_encode(self_bases, s)

\* the value __setup stores for the enumerated state s
setup_entry(s) == unsafe_encode(self_bases, unsafe_update(net, s))

\* one pass of `for i, state in enumerate(self)` in __setup
setup_step ==
    /\ pc = "setup"
    /\ it # Exhausted
    /\ transitions' = [transitions EXCEPT ![i] = setup_entry(it)]
    /\ updated' = Append(updated, it)
    /\ i' = i + 1
    /\ it' = NextState(self_bases, it)
    /\ UNCHANGED <<randomnet, inputs, pc, call, ret, landscape, gen_locals, expound_locals,
                   expound_runs, demanded, work>>

\* the loop is exhausted: self.__transitions = transitions, the constructor returns
setup_done ==
    /\ pc = "setup"
    /\ it = Exhausted
    /\ self_transitions' = transitions
    /\ transitions' = <<>>
    /\ i' = 0
    /\ pc' = "ready"
    /\ UNCHANGED <<randomnet, inputs, call, ret, self_bases, self_expounded, self_basins,
                   self_attractors, it, gen_locals, expound_locals, history>>

\* ------------------------------------------------------- the caller
\* the caller has its answer and is free to make its next call
next_call ==
    /\ pc = "done"
    /\ pc' = "ready"
    /\ call' = Call("none")
    /\ ret' = NoRet
    /\ UNCHANGED <<randomnet, inputs, landscape, setup_locals, gen_locals, expound_locals,
                   history>>

\* ------------------------------------------------------- Landscape.transitions
\* the transitions property
get_transitions ==
    /\ pc = "ready"
    /\ call' = Call("transitions")
    /\ ret' = Returned("transitions", self_transitions)
    /\ pc' = "done"
    /\ UNCHANGED <<randomnet, inputs, landscape, setup_locals, gen_locals, expound_locals,
                   history>>

\* ------------------------------------------------------- Landscape.__expound
\* a decomposition that runs again on every access
must_expound_always == TRUE

\* `if not self.__expounded` of the attractors and basins properties
must_expound == ~self_expounded

\* a basin counter that is never incremented
next_basin_number_stuck(n) == n

\* `basin_number += 1`
next_basin_number(n) == n + 1

\* a path that merges always joins the newest basin
merged_basin_newest(b, t) == basin_number - 1

\* `basin = basins[next_state]`: the basin of an already assigned terminus
merged_basin(b, t) == b[t]

\* the whole path is collected, not only the part from the terminus on
still_in_cycle_whole_path(term, st) == TRUE

\* only the first state is collected
still_in_cycle_never(term, st) == FALSE

\* `in_cycle = (terminus != state)`
still_in_cycle(term, st) == term # st

\* the entry of __expound: its locals before the outer loop
expound_begin ==
    /\ visited' = [k \in 0..Volume(self_bases) - 1 |-> FALSE]
    /\ basins' = [k \in 0..Volume(self_bases) - 1 |-> -1]
    /\ basin_number' = 0
    /\ attractors' = <<>>
    /\ initial_state' = 0
    /\ expound_runs' = expound_runs + 1
    /\ work' = NoWork(Volume(self_bases))
    /\ pc' = "outer"
    /\ UNCHANGED <<state_stack, cycle, in_cycle, state, next_state, terminus,
                   basin>>

\* the attractors / basins property: the cached value, or the entry of __expound
get_derived(op) ==
    /\ pc = "ready"
    /\ call' = Call(op)
    /\ demanded' = IF demanded = "none" THEN op ELSE demanded
    /\ IF must_expound
       THEN /\ expound_begin
            /\ ret' = NoRet
       ELSE /\ ret' = Returned(op, IF op = "attractors" THEN self_attractors
                                                        ELSE self_basins)
            /\ pc' = "done"
            /\ UNCHANGED <<expound_locals, expound_runs, work>>
    /\ UNCHANGED <<randomnet, inputs, landscape, setup_locals, gen_locals, updated>>

get_attractors == get_derived("attractors")
get_basins == get_derived("basins")

\* `while initial_state < len(trans)` holds: a fresh path starts at initial_state
path_start ==
    /\ pc = "outer"
    /\ initial_state < Volume(self_bases)
    /\ state_stack' = <<>>
    /\ cycle' = <<>>
    /\ in_cycle' = FALSE
    /\ state' = initial_state
    /\ terminus' = self_transitions[initial_state]
    /\ next_state' = self_transitions[initial_state]
    /\ visited' = [visited EXCEPT ![initial_state] = TRUE]
    /\ work' = [work EXCEPT !.marks[initial_state] = @ + 1, !.paths = @ + 1]
    /\ pc' = "follow"
    /\ UNCHANGED <<randomnet, inputs, call, ret, landscape, setup_locals, gen_locals,
                   basins, basin_number, attractors, initial_state, basin,
                   updated, expound_runs, demanded>>

\* the path is followed until it meets a state that has its basin
follow_holds_until_basin(vis, nxt) == basins[nxt] = -1

\* `while not visited[next_state]`
follow_holds(vis, nxt) == ~vis[nxt]

\* the loop's condition holds: push the state and move to its successor
follow_step ==
    /\ pc = "follow"
    /\ follow_holds(visited, next_state)
    /\ state_stack' = Append(state_stack, state)
    /\ state' = next_state
    /\ terminus' = self_transitions[next_state]
    /\ next_state' = self_transitions[next_state]
    /\ visited' = [visited EXCEPT ![next_state] = TRUE]
    /\ work' = [work EXCEPT !.marks[next_state] = @ + 1, !.pushes = @ + 1]
    /\ UNCHANGED <<randomnet, inputs, pc, call, ret, landscape, setup_locals, gen_locals,
                   basins, basin_number, attractors, initial_state, cycle,
                   in_cycle, basin, updated, expound_runs, demanded>>

\* the terminus is reached: a new basin and the first member of its cycle, or
\* the basin of the terminus; the state gets the basin
close_path ==
    /\ pc = "follow"
    /\ ~follow_holds(visited, next_state)
    /\ IF basins[next_state] = -1
       THEN /\ basin' = basin_number
            /\ basin_number' = next_basin_number(basin_number)
            /\ cycle' = Append(cycle, state)
            /\ in_cycle' = still_in_cycle(terminus, state)
       ELSE /\ basin' = merged_basin(basins, next_state)
            /\ UNCHANGED <<basin_number, cycle, in_cycle>>
    /\ basins' = [basins EXCEPT ![state] = basin']
    /\ work' = [work EXCEPT !.writes[state] = @ + 1]
    /\ pc' = "pop"
    /\ UNCHANGED <<randomnet, inputs, call, ret, landscape, setup_locals, gen_locals,
                   visited, attractors, initial_state, state_stack, state,
                   next_state, terminus, updated, expound_runs, demanded>>

\* `while len(state_stack) != 0` holds: pop a state, give it the basin, and
\* collect it while still in the cycle
pop_step ==
    /\ pc = "pop"
    /\ Len(state_stack) # 0
    /\ LET top == state_stack[Len(state_stack)] IN
        /\ state' = top
        /\ state_stack' = SubSeq(state_stack, 1, Len(state_stack) - 1)
        /\ basins' = [basins EXCEPT ![top] = basin]
        /\ work' = [work EXCEPT !.writes[top] = @ + 1, !.pops = @ + 1]
        /\ IF in_cycle
           THEN /\ cycle' = Append(cycle, top)
                /\ in_cycle' = still_in_cycle(terminus, top)
           ELSE UNCHANGED <<cycle, in_cycle>>
    /\ UNCHANGED <<randomnet, inputs, pc, call, ret, landscape, setup_locals, gen_locals,
                   visited, basin_number, attractors, initial_state, next_state,
                   terminus, basin, updated, expound_runs, demanded>>

\* the stack is empty: on to the scan for the next unvisited state
pop_done ==
    /\ pc = "pop"
    /\ Len(state_stack) = 0
    /\ pc' = "scan"
    /\ UNCHANGED <<randomnet, inputs, call, ret, landscape, setup_locals, gen_locals,
                   expound_locals, history>>

\* the scan gives up one index before the end of the table
scan_holds_before_last(ptr, vis) ==
    ptr < Cardinality(DOMAIN vis) - 1 /\ vis[ptr]

\* `initial_state < len(visited) and visited[initial_state]`
scan_holds(ptr, vis) == ptr < Cardinality(DOMAIN vis) /\ vis[ptr]

\* the scan pointer stays where it is
scan_advance_stay(ptr) == ptr

\* `initial_state += 1`
scan_advance(ptr) == ptr + 1

\* the scan loop's condition holds: one step forward
scan_step ==
    /\ pc = "scan"
    /\ scan_holds(initial_state, visited)
    /\ initial_state' = scan_advance(initial_state)
    /\ UNCHANGED <<randomnet, inputs, pc, call, ret, landscape, setup_locals, gen_locals,
                   visited, basins, basin_number, attractors, state_stack,
                   cycle, in_cycle, state, next_state, terminus, basin,
                   history>>

\* the new cycle is put in front of the ones found before
attractors_prepend(attrs, cyc) == <<cyc>> \o attrs

\* `attractors.append(np.asarray(cycle, dtype=np.int))`
attractors_append(attrs, cyc) == Append(attrs, cyc)

\* the scan stops: the cycle, if one was found, joins the attractors
scan_done ==
    /\ pc = "scan"
    /\ ~scan_holds(initial_state, visited)
    /\ attractors' =
          IF Len(cycle) # 0 THEN attractors_append(attractors, cycle) ELSE attractors
    /\ pc' = "outer"
    /\ UNCHANGED <<randomnet, inputs, call, ret, landscape, setup_locals, gen_locals,
                   visited, basins, basin_number, initial_state, state_stack,
                   cycle, in_cycle, state, next_state, terminus, basin,
                   history>>

\* the outer loop ends: the results are stored, the flag is set, and the
\* property that asked for them returns its value
expound_end ==
    /\ pc = "outer"
    /\ ~(initial_state < Volume(self_bases))
    /\ self_basins' = basins
    /\ self_attractors' = attractors
    /\ self_expounded' = TRUE
    /\ ret' = Returned(call.op, IF call.op = "attractors" THEN attractors ELSE basins)
    /\ pc' = "done"
    /\ ExpoundReset
    /\ UNCHANGED <<randomnet, inputs, call, self_bases, self_transitions, setup_locals,
                   gen_locals, history>>

\* ------------------------------------------------------- Landscape.trajectory
\* StateSpace.encode accepts exactly the states of the space
encode_ok(bases, s) == s \in States(bases)
\* StateSpace.decode accepts exactly the indices of [0, volume)
decode_ok(bases, k) == 0 <= k /\ k < Volume(bases)

\* numpy indexing arr[k] of an array of length n: k in [-n, n), negatives
\* counted from the end
np_item_ok(arr, k) == -Cardinality(DOMAIN arr) <= k /\ k < Cardinality(DOMAIN arr)
np_item(arr, k) == arr[IF k < 0 THEN Cardinality(DOMAIN arr) + k ELSE k]

\* membership in a Python list
InList(x, l) == \E k \in 1..Len(l) : l[k] = x

RECURSIVE fixed_fill(_, _, _)
\* `for i in range(1, len(path)): path[i] = trans[path[i-1]]`, path filled up to n
fixed_fill(trans, path, n) ==
    IF Len(path) >= n THEN path
    ELSE fixed_fill(trans, Append(path, np_item(trans, path[Len(path)])), n)

\* one entry short
fixed_path_short(trans, init, timesteps) == fixed_fill(trans, <<init>>, timesteps)

\* the fixed-step branch: timesteps + 1 entries
fixed_path(trans, init, timesteps) == fixed_fill(trans, <<init>>, timesteps + 1)

RECURSIVE until_loop(_, _, _)
\* `while state not in path: path.append(state); state = trans[state]`
until_loop(trans, path, s) ==
    IF InList(s, path) THEN path
    ELSE until_loop(trans, Append(path, s), np_item(trans, s))

\* the path starts at the successor instead of the initial state
until_path_from_successor(trans, init) ==
    until_loop(trans, <<np_item(trans, init)>>, np_item(trans, np_item(trans, init)))

\* the until-repeat branch
until_path(trans, init) == until_loop(trans, <<init>>, np_item(trans, init))

\* zero steps are let through
bad_timesteps_negative(t) == t < 0

\* `if timesteps < 1`
bad_timesteps(t) == t < 1

\* the whole method: what it returns or raises
trajectory_result(init, timesteps, encode) ==
    IF init.list /\ init.state = <<>>
    THEN Raised("ValueError", "initial state cannot be empty")
    ELSE IF init.list /\ ~encode_ok(self_bases, init.state)
    THEN Raised("ValueError", "state is not in state space")
    ELSE
      LET enc == IF encode = None THEN ~init.list ELSE encode[1]
          idx == IF init.list THEN unsafe_encode(self_bases, init.state)
                 ELSE init.index
      IN  IF timesteps # None /\ bad_timesteps(timesteps[1])
          THEN Raised("ValueError", "number of steps must be positive, non-zero")
          ELSE IF ~np_item_ok(self_transitions, idx)
          THEN Raised("IndexError", "index is out of bounds")
          ELSE
            LET path == IF timesteps # None
                        THEN fixed_path(self_transitions, idx, timesteps[1])
                        ELSE until_path(self_transitions, idx)
            IN  IF enc THEN Returned("path", path)
                ELSE IF \E k \in 1..Len(path) : ~decode_ok(self_bases, path[k])
                THEN Raised("ValueError", "index is not in state space")
                ELSE Returned("states",
                              [k \in 1..Len(path) |-> decode(self_bases, path[k])])

\* the initial states tried: every index of the space and the ones around it,
\* every state vector, an empty vector and a vector outside the space
TrajectoryInits ==
    {[list |-> FALSE, state |-> <<>>, index |-> k] :
        k \in (-1..Volume(self_bases)) \cup {-Volume(self_bases) - 1}} \cup
    {[list |-> TRUE, state |-> v, index |-> 0] :
        v \in States(self_bases) \cup {<<>>, [k \in 1..Len(self_bases) |-> self_bases[k]]}}

TrajectoryTimesteps == {None} \cup {Some(n) : n \in -1..MaxSteps}
TrajectoryEncodes == {None, Some(TRUE), Some(FALSE)}

trajectory ==
    /\ pc = "ready"
    /\ \E init \in TrajectoryInits, timesteps \in TrajectoryTimesteps,
          encode \in TrajectoryEncodes :
          /\ call' = CallTrajectory(init, timesteps, encode)
          /\ ret' = trajectory_result(init, timesteps, encode)
    /\ pc' = "done"
    /\ UNCHANGED <<randomnet, inputs, landscape, setup_locals, gen_locals, expound_locals,
                   history>>

\* ------------------------------------------------------- transitions (free function)
\* list(transitions(net, size, encode)) up to the head of its loop
transitions_call ==
    /\ pc = "new"
    /\ \E encode \in BOOLEAN :
          call' = [Call("transitions()") EXCEPT !.encode = Some(encode)]
    /\ IF SizeCheck(net, size) # NoRet
       THEN /\ pc' = "raised"
            /\ ret' = SizeCheck(net, size)
            /\ UNCHANGED <<gen_space, it>>
       ELSE /\ gen_space' = state_space(net, size)
            /\ it' = FirstState(gen_space')
            /\ pc' = "gen"
            /\ ret' = ret
    /\ UNCHANGED <<randomnet, inputs, landscape, transitions, i, yielded, legacy_trans,
                   expound_locals, history>>

\* what transitions yields for the enumerated state s
gen_entry(s) ==
    IF call.encode = Some(TRUE) THEN unsafe_encode(gen_space, unsafe_update(net, s))
    ELSE unsafe_update(net, s)

\* one pass of `for state in state_space`
gen_step ==
    /\ pc = "gen"
    /\ it # Exhausted
    /\ updated' = Append(updated, it)
    /\ yielded' = Append(yielded, gen_entry(it))
    /\ it' = NextState(gen_space, it)
    /\ UNCHANGED <<randomnet, inputs, pc, call, ret, landscape, transitions, i, gen_space,
                   legacy_trans, expound_locals, expound_runs, demanded, work>>

\* the generator is exhausted: the list is complete
gen_done ==
    /\ pc = "gen"
    /\ it = Exhausted
    /\ ret' = Returned("list", yielded)
    /\ yielded' = <<>>
    /\ pc' = "finished"
    /\ UNCHANGED <<randomnet, inputs, call, landscape, setup_locals, gen_space,
                   legacy_trans, expound_locals, history>>

\* ------------------------------------------------------- attractors (free function)
\* a Landscape has been constructed: the caller holds it and goes on
\* afterwards; without one the free function's result ends the run
HasLandscape == self_bases # <<>>
AfterCall == IF HasLandscape THEN "done" ELSE "finished"

\* list(transitions(net, size=size, encode=True)), as an array over 0..volume-1
transitions_list(n, sz) ==
    LET space == state_space(n, sz) IN
    [x \in 0..Volume(space) - 1 |->
        unsafe_encode(space, unsafe_update(n, decode(space, x)))]

\* the least node of a cycle
Least(c) == CHOOSE x \in {c[k] : k \in 1..Len(c)} : \A k \in 1..Len(c) : x <= c[k]

\* nx.simple_cycles(g): the elementary circuits of g, each written from its
\* least node on (networkx fixes neither their order nor their first node)
simple_cycles(g) ==
    {c \in UNION {[1..n -> g.nodes] : n \in 1..Cardinality(g.nodes)} :
        /\ \A k, l \in 1..Len(c) : k # l => c[k] # c[l]
        /\ c[1] = Least(c)
        /\ \A k \in 1..Len(c) - 1 : <<c[k], c[k + 1]>> \in g.edges
        /\ <<c[Len(c)], c[1]>> \in g.edges}

\* a zero entry of basins is taken for "no basin yet" only when it is -1
legacy_unassigned_minus_one(bas, nxt) == bas[nxt] = -1

\* `if basins[next_state] == 0`
legacy_unassigned(bas, nxt) == bas[nxt] = 0

\* list(attractors(net, size)) up to the head of its outer loop
attractors_call ==
    /\ pc \in {"new", "ready"}
    /\ call' = Call("attractors()")
    /\ IF is_digraph(net)
       THEN /\ ret' = Returned("cycles", simple_cycles(net))
            /\ pc' = "finished"
            /\ UNCHANGED <<legacy_trans, expound_locals>>
       ELSE IF ~is_network(net)
       THEN /\ ret' = Raised("TypeError", "net must be a network or a networkx DiGraph")
            /\ pc' = "raised"
            /\ UNCHANGED <<legacy_trans, expound_locals>>
       ELSE IF is_fixed_sized(net) /\ size # None
       THEN /\ ret' = Raised("ValueError", "fixed sized networks require size is None")
            /\ pc' = "raised"
            /\ UNCHANGED <<legacy_trans, expound_locals>>
       ELSE IF ~is_fixed_sized(net) /\ size = None
       THEN /\ ret' = Raised("ValueError", "variable sized networks require a size")
            /\ pc' = "raised"
            /\ UNCHANGED <<legacy_trans, expound_locals>>
       ELSE /\ legacy_trans' = transitions_list(net, size)
            /\ visited' = [k \in DOMAIN legacy_trans' |-> FALSE]
            /\ basins' = [k \in DOMAIN legacy_trans' |-> 0]
            /\ basin_number' = 1
            /\ initial_state' = 0
            /\ ret' = NoRet
            /\ pc' = "legacy_outer"
            /\ UNCHANGED <<attractors, state_stack, cycle, in_cycle, state,
                           next_state, terminus, basin>>
    /\ UNCHANGED <<randomnet, inputs, landscape, setup_locals, gen_space, yielded, history>>

\* `while initial_state < len(trans)` holds: a new path starts
legacy_path_start ==
    /\ pc = "legacy_outer"
    /\ initial_state < Cardinality(DOMAIN legacy_trans)
    /\ state_stack' = <<>>
    /\ cycle' = <<>>
    /\ in_cycle' = FALSE
    /\ state' = initial_state
    /\ terminus' = legacy_trans[initial_state]
    /\ next_state' = legacy_trans[initial_state]
    /\ visited' = [visited EXCEPT ![initial_state] = TRUE]
    /\ pc' = "legacy_follow"
    /\ UNCHANGED <<randomnet, inputs, call, ret, landscape, setup_locals, gen_locals,
                   basins, basin_number, attractors, initial_state, basin,
                   history>>

\* `while not visited[next_state]` holds
legacy_follow_step ==
    /\ pc = "legacy_follow"
    /\ follow_holds(visited, next_state)
    /\ state_stack' = Append(state_stack, state)
    /\ state' = next_state
    /\ terminus' = legacy_trans[next_state]
    /\ next_state' = legacy_trans[next_state]
    /\ visited' = [visited EXCEPT ![next_state] = TRUE]
    /\ UNCHANGED <<randomnet, inputs, pc, call, ret, landscape, setup_locals, gen_locals,
                   basins, basin_number, attractors, initial_state, cycle,
                   in_cycle, basin, history>>

\* the path has met a visited state: a new cycle, or the basin met; the
\* counter basin_number is left as it is
legacy_close_path ==
    /\ pc = "legacy_follow"
    /\ ~follow_holds(visited, next_state)
    /\ IF legacy_unassigned(basins, next_state)
       THEN /\ basin' = basin_number
            /\ cycle' = Append(cycle, state)
            /\ in_cycle' = still_in_cycle(terminus, state)
       ELSE /\ basin' = basins[next_state]
            /\ UNCHANGED <<cycle, in_cycle>>
    /\ basins' = [basins EXCEPT ![state] = basin']
    /\ pc' = "legacy_pop"
    /\ UNCHANGED <<randomnet, inputs, call, ret, landscape, setup_locals, gen_locals,
                   visited, basin_number, attractors, initial_state,
                   state_stack, state, next_state, terminus, history>>

\* `while len(state_stack) != 0` holds
legacy_pop_step ==
    /\ pc = "legacy_pop"
    /\ Len(state_stack) # 0
    /\ LET top == state_stack[Len(state_stack)] IN
        /\ state' = top
        /\ state_stack' = SubSeq(state_stack, 1, Len(state_stack) - 1)
        /\ basins' = [basins EXCEPT ![top] = basin]
        /\ IF in_cycle
           THEN /\ cycle' = Append(cycle, top)
                /\ in_cycle' = still_in_cycle(terminus, top)
           ELSE UNCHANGED <<cycle, in_cycle>>
    /\ UNCHANGED <<randomnet, inputs, pc, call, ret, landscape, setup_locals, gen_locals,
                   visited, basin_number, attractors, initial_state, next_state,
                   terminus, basin, history>>

\* the stack is empty
legacy_pop_done ==
    /\ pc = "legacy_pop"
    /\ Len(state_stack) = 0
    /\ pc' = "legacy_scan"
    /\ UNCHANGED <<randomnet, inputs, call, ret, landscape, setup_locals, gen_locals,
                   expound_locals, history>>

\* the scan loop's condition holds
legacy_scan_step ==
    /\ pc = "legacy_scan"
    /\ scan_holds(initial_state, visited)
    /\ initial_state' = scan_advance(initial_state)
    /\ UNCHANGED <<randomnet, inputs, pc, call, ret, landscape, setup_locals, gen_locals,
                   visited, basins, basin_number, attractors, state_stack,
                   cycle, in_cycle, state, next_state, terminus, basin,
                   history>>

\* the scan stops: `if len(cycle) != 0: yield cycle`
legacy_yield ==
    /\ pc = "legacy_scan"
    /\ ~scan_holds(initial_state, visited)
    /\ yielded' = IF Len(cycle) # 0 THEN Append(yielded, cycle) ELSE yielded
    /\ pc' = "legacy_outer"
    /\ UNCHANGED <<randomnet, inputs, call, ret, landscape, setup_locals, gen_space,
                   legacy_trans, expound_locals, history>>

\* the outer loop ends: the generator is exhausted and the list complete
legacy_done ==
    /\ pc = "legacy_outer"
    /\ ~(initial_state < Cardinality(DOMAIN legacy_trans))
    /\ ret' = Returned("attractors()", yielded)
    /\ yielded' = <<>>
    /\ legacy_trans' = <<>>
    /\ ExpoundReset
    /\ pc' = AfterCall
    /\ UNCHANGED <<randomnet, inputs, call, landscape, setup_locals, gen_space, history>>

\* ------------------------------------------------------- basins (free function)
\* the nodes an edge of g joins to x, in either direction
weak_neighbours_forward(g, x) == {e[2] : e \in {d \in g.edges : d[1] = x}}

weak_neighbours(g, x) ==
    {e[2] : e \in {d \in g.edges : d[1] = x}} \cup
    {e[1] : e \in {d \in g.edges : d[2] = x}}

RECURSIVE component(_, _)
\* the nodes joined to the set c by edges taken in either direction
component(g, c) ==
    LET more == c \cup UNION {weak_neighbours(g, x) : x \in c}
    IN  IF more = c THEN c ELSE component(g, more)

\* nx.weakly_connected_component_subgraphs(g): one subgraph for each weakly
\* connected component, here as its set of nodes
weakly_connected_components(g) == {component(g, {x}) : x \in g.nodes}

\* transition_graph(net, size): the DiGraph, or the exception raised
transition_graph(n, sz) ==
    IF is_network(n)
    THEN IF SizeCheck(n, sz) # NoRet THEN SizeCheck(n, sz)
         ELSE Returned("graph", DiGraphOf(transitions_list(n, sz)))
    ELSE IF is_digraph(n)
    THEN IF sz # None
         THEN Raised("ValueError", "size must be None for transition graphs")
         ELSE Returned("graph", n)
    ELSE Raised("TypeError", "net must be a network or a networkx DiGraph")

\* list(basins(net, size))
basins_call ==
    /\ pc \in {"new", "ready"}
    /\ call' = Call("basins()")
    /\ LET graph == transition_graph(net, size) IN
        IF graph.kind = "error"
        THEN ret' = graph /\ pc' = "raised"
        ELSE /\ ret' = Returned("basins()", weakly_connected_components(graph.val))
             /\ pc' = AfterCall
    /\ UNCHANGED <<randomnet, inputs, landscape, setup_locals, gen_locals, expound_locals,
                   history>>

Next ==
    \/ Landscape_init
    \/ setup_step
    \/ setup_done
    \/ next_call
    \/ get_transitions
    \/ get_attractors
    \/ get_basins
    \/ path_start
    \/ follow_step
    \/ close_path
    \/ pop_step
    \/ pop_done
    \/ scan_step
    \/ scan_done
    \/ expound_end
    \/ trajectory
    \/ transitions_call
    \/ gen_step
    \/ gen_done
    \/ attractors_call
    \/ legacy_path_start
    \/ legacy_follow_step
    \/ legacy_close_path
    \/ legacy_pop_step
    \/ legacy_pop_done
    \/ legacy_scan_step
    \/ legacy_yield
    \/ legacy_done
    \/ basins_call

Spec == Init /\ [][Next]_vars

\* one step of a running __expound
expound_step ==
    \/ path_start
    \/ follow_step
    \/ close_path
    \/ pop_step
    \/ pop_done
    \/ scan_step
    \/ scan_done
    \/ expound_end

\* construction and the decomposition alone
NextDecompose ==
    \/ Landscape_init
    \/ setup_step
    \/ setup_done
    \/ next_call
    \/ get_attractors
    \/ get_basins
    \/ expound_step

\* __expound is straight-line Python inside one property access: once it has
\* begun, it keeps taking its next step
FairDecompose == Init /\ [][NextDecompose]_vars /\ WF_vars(expound_step)

\* ------------------------------------------------------- neet.boolean.randomnet
\* everything of neet.synchronous
synchronous ==
    <<inputs, pc, call, ret, landscape, setup_locals, gen_locals,
      expound_locals, history>>

\* a LogicNetwork of n nodes; what its table holds is drawn where it is read
LogicNetworks == {[islogic |-> TRUE, size |-> n] : n \in 1..MaxNodes}

\* the three generators with a rejection loop, and the one without
Generators ==
    {"_random_logic_fixed_connections", "_random_logic_shuffled_connections",
     "_random_logic_fixed_num_edges"}
FreeConnections == "_random_logic_free_connections"

\* the keys of random_styles and the function each stands for
StyleKeys == {"fixed-structure", "fixed-in-degree", "fixed-mean-degree", "free"}
random_styles(c) ==
    CASE c = "fixed-structure" -> "_random_logic_fixed_connections"
      [] c = "fixed-in-degree" -> "_random_logic_shuffled_connections"
      [] c = "fixed-mean-degree" -> "_random_logic_fixed_num_edges"
      [] c = "free" -> FreeConnections

\* how many positional arguments the function's signature takes
max_positional(fn) == IF fn = FreeConnections THEN 2 ELSE 6

\* random_logic hands five positional arguments to the function it picks
dispatch_accepts(fn) == 5 <= max_positional(fn)

\* `give_up_number=1000` of the three generators' signatures
default_give_up_number == 1000

\* the arguments of a generator call
RandomCall(via, fn, c, fe, mi, fc, gun) ==
    [via |-> via, fn |-> fn, connections |-> c, fix_external |-> fe,
     make_irreducible |-> mi, fix_canalizing |-> fc, give_up_number |-> gun]

\* a row of the new table: drawn anew or copied from the input, with the
\* number of its inputs when the generator draws it (0: as the input has it)
Row(drawn, k) == [drawn |-> drawn, n_indices |-> k]

\* the generator raises e before it has made a row
RaiseAtEntry(c, e, m) ==
    /\ rcall' = c
    /\ rret' = Raised(e, m)
    /\ rpc' = "raised"
    /\ UNCHANGED <<logic_net, ps, node, new_table, keep_trying, number_tried>>

\* one of the three generators is entered with the arguments c
EnterGenerator(c) ==
    IF c.fn # "_random_logic_fixed_num_edges" /\ ~logic_net.islogic
    THEN RaiseAtEntry(c, "ValueError", "object must be a LogicNetwork")
    ELSE IF c.fn = "_random_logic_fixed_num_edges" /\ c.fix_canalizing
    THEN RaiseAtEntry(c, "NotImplementedError",
                      "fix_canalizing=True not yet implemented")
    ELSE /\ rcall' = c
         /\ rpc' = "row"
         /\ node' = 0
         /\ new_table' = <<>>
         /\ rret' = NoRet
         /\ UNCHANGED <<logic_net, ps, keep_trying, number_tried>>

\* random_logic(logic_net, p, connections, fix_external, make_irreducible,
\* fix_canalizing)
random_logic ==
    /\ rpc = "new"
    /\ \E c \in StyleKeys \cup {"fixed"}, fe, mi, fc \in BOOLEAN :
        LET public == RandomCall("random_logic", "random_logic", c, fe, mi, fc, 0) IN
        IF ~logic_net.islogic
        THEN RaiseAtEntry(public, "ValueError", "object must be a LogicNetwork")
        ELSE IF ps # None /\ ps[1] # logic_net.size
        THEN RaiseAtEntry(public, "ValueError",
                          "p's length must match with network size")
        ELSE IF c \notin StyleKeys
        THEN RaiseAtEntry(public, "ValueError", "connections must be one of the styles")
        ELSE IF ~dispatch_accepts(random_styles(c))
        THEN RaiseAtEntry(public, "TypeError", "takes exactly 2 arguments (5 given)")
        ELSE EnterGenerator(RandomCall("random_logic", random_styles(c), c, fe, mi,
                                       fc, default_give_up_number))
    /\ UNCHANGED synchronous

\* one of the three generators called by itself, with a give_up_number
generator_call ==
    /\ rpc = "new"
    /\ logic_net.islogic => ps = Some(logic_net.size)
    /\ \E fn \in Generators, fe, mi, fc \in BOOLEAN, gun \in 1..MaxGiveUp :
        /\ fn = "_random_logic_fixed_num_edges" => logic_net.islogic
        /\ EnterGenerator(RandomCall("direct", fn, "", fe, mi, fc, gun))
    /\ UNCHANGED synchronous

\* _random_logic_free_connections(logic_net, ps) called by itself: every node
\* gets between 1 and size inputs
free_connections_call ==
    /\ rpc = "new"
    /\ logic_net.islogic => ps = Some(logic_net.size)
    /\ LET c == RandomCall("direct", FreeConnections, "", FALSE, FALSE, FALSE, 0) IN
        IF ~logic_net.islogic
        THEN RaiseAtEntry(c, "ValueError", "object must be a LogicNetwork")
        ELSE /\ rcall' = c
             /\ \E degrees \in [1..logic_net.size -> 1..logic_net.size] :
                   new_table' = [k \in 1..logic_net.size |-> Row(TRUE, degrees[k])]
             /\ node' = logic_net.size
             /\ rret' = Returned("LogicNetwork", new_table')
             /\ rpc' = "returned"
             /\ UNCHANGED <<logic_net, ps, keep_trying, number_tried>>
    /\ UNCHANGED synchronous

\* the generator looks for external nodes: fixed-structure always, the
\* others when fix_external is set
finds_externals ==
    rcall.fn = "_random_logic_fixed_connections" \/ rcall.fix_external

\* the row of the input table is one of an external node: it is kept
row_copy ==
    /\ rpc = "row"
    /\ node < logic_net.size
    /\ finds_externals
    /\ new_table' = Append(new_table, Row(FALSE, 0))
    /\ node' = node + 1
    /\ UNCHANGED <<logic_net, ps, rcall, rpc, rret, keep_trying, number_tried>>
    /\ UNCHANGED synchronous

\* the node is not external: `keep_trying = True; number_tried = 0`
row_begin ==
    /\ rpc = "row"
    /\ node < logic_net.size
    /\ keep_trying' = TRUE
    /\ number_tried' = 0
    /\ rpc' = "try"
    /\ UNCHANGED <<logic_net, ps, rcall, rret, node, new_table>>
    /\ UNCHANGED synchronous

\* `keep_trying and (number_tried < give_up_number)`
loop_holds == keep_trying /\ number_tried < rcall.give_up_number

\* keep_trying after a candidate that is irreducible or not and whose
\* canalizing agrees with the original row's or not
still_trying(irreducible, same_canalizing) ==
    IF rcall.fn = "_random_logic_fixed_num_edges"
    THEN (IF rcall.make_irreducible THEN ~irreducible ELSE FALSE)
    ELSE LET first == IF rcall.make_irreducible THEN ~irreducible ELSE FALSE
         IN  IF ~first /\ rcall.fix_canalizing THEN ~same_canalizing ELSE first

\* one pass of the rejection loop: a candidate is drawn and tested
try_candidate ==
    /\ rpc = "try"
    /\ loop_holds
    /\ number_tried' = number_tried + 1
    /\ \E irreducible, same_canalizing \in BOOLEAN :
          keep_trying' = still_trying(irreducible, same_canalizing)
    /\ UNCHANGED <<logic_net, ps, rcall, rpc, rret, node, new_table>>
    /\ UNCHANGED synchronous

\* `if number_tried >= give_up_number`
gave_up == number_tried >= rcall.give_up_number

\* the loop is over and the test after it raises
give_up ==
    /\ rpc = "try"
    /\ ~loop_holds
    /\ gave_up
    /\ rret' = Raised("Exception", "No function out of N tried satisfied constraints")
    /\ rpc' = "raised"
    /\ UNCHANGED <<logic_net, ps, rcall, node, new_table, keep_trying, number_tried>>
    /\ UNCHANGED synchronous

\* the loop is over and the candidate becomes the node's row
row_append ==
    /\ rpc = "try"
    /\ ~loop_holds
    /\ ~gave_up
    /\ new_table' = Append(new_table, Row(TRUE, 0))
    /\ node' = node + 1
    /\ rpc' = "row"
    /\ UNCHANGED <<logic_net, ps, rcall, rret, keep_trying, number_tried>>
    /\ UNCHANGED synchronous

\* every row is made: `return LogicNetwork(new_table, logic_net.names)`
table_done ==
    /\ rpc = "row"
    /\ node = logic_net.size
    /\ rret' = Returned("LogicNetwork", new_table)
    /\ rpc' = "returned"
    /\ UNCHANGED <<logic_net, ps, rcall, node, new_table, keep_trying, number_tried>>
    /\ UNCHANGED synchronous

InitRandom ==
    /\ net = NotANet
    /\ size = None
    /\ SynchronousIdle
    /\ logic_net \in LogicNetworks \cup {NotALogicNetwork}
    /\ ps \in {None} \cup {Some(k) : k \in 1..MaxNodes}
    /\ RandomIdle

NextRandom ==
    \/ random_logic
    \/ generator_call
    \/ free_connections_call
    \/ row_copy
    \/ row_begin
    \/ try_candidate
    \/ give_up
    \/ row_append
    \/ table_done

SpecRandom == InitRandom /\ [][NextRandom]_vars

\* ------------------------------------------------------------------ vocabulary
\* the volume of the Landscape and its index set
volume == Volume(self_bases)
Indices == 0..volume - 1

RECURSIVE Iterate(_, _, _)
\* the index reached from x after n applications of the table t
Iterate(t, x, n) == IF n = 0 THEN x ELSE Iterate(t, t[x], n - 1)

\* j lies on a cycle of the table t
Periodic(t, j) == \E p \in 1..Cardinality(DOMAIN t) : Iterate(t, j, p) = j

Members(c) == {c[k] : k \in 1..Len(c)}
Distinct(c) == \A k, l \in 1..Len(c) : k # l => c[k] # c[l]

RECURSIVE SumSizes(_, _)
\* the number of indices in the basins 0..b
SumSizes(bs, b) ==
    IF b < 0 THEN 0
    ELSE Cardinality({x \in DOMAIN bs : bs[x] = b}) + SumSizes(bs, b - 1)

\* a trajectory call has returned to its caller
TrajectoryDone == pc = "done" /\ call.op = "trajectory"
\* its initial state is a state of the space, or an index of it
ValidInit ==
    IF call.init.list THEN call.init.state \in States(self_bases)
    ELSE call.init.index \in Indices
\* the index the initial state stands for
InitIndex ==
    IF call.init.list THEN unsafe_encode(self_bases, call.init.state)
    ELSE call.init.index
\* the returned path as indices
RetIndices ==
    IF ret.kind = "states"
    THEN [k \in 1..Len(ret.val) |-> unsafe_encode(self_bases, ret.val[k])]
    ELSE ret.val
ReturnedPath == ret.kind \in {"path", "states"}

\* ------------------------------------------------------------------ claims

\* C1: after the decomposition every index has a basin id in [0, k), k the
\* number of recorded attractors; no entry is left at -1; every id in [0, k)
\* is used; the basin sizes sum to the volume.
C1_BasinsDenseAndCovering ==
    self_expounded =>
        /\ DOMAIN self_basins = Indices
        /\ \A x \in Indices :
              self_basins[x] # -1 /\ self_basins[x] \in 0..Len(self_attractors) - 1
        /\ \A b \in 0..Len(self_attractors) - 1 : \E x \in Indices : self_basins[x] = b
        /\ Cardinality({self_basins[x] : x \in Indices}) = Len(self_attractors)
        /\ SumSizes(self_basins, Len(self_attractors) - 1) = volume

\* C1 witness: a decomposition of a four-state table into three basins, one
\* of them with two indices.
C1_Witness ==
    /\ self_expounded
    /\ volume = 4
    /\ Len(self_attractors) = 3
    /\ \E x, y \in Indices : x # y /\ self_basins[x] = self_basins[y]

\* C2: from every index, at most volume applications of transitions reach a
\* member of the attractor its basin id names.
C2_BasinReachesItsCycle ==
    self_expounded =>
        \A x \in Indices :
            /\ self_basins[x] \in 0..Len(self_attractors) - 1
            /\ \E n \in 0..volume :
                  Iterate(self_transitions, x, n)
                      \in Members(self_attractors[self_basins[x] + 1])

\* C2 witness: a transient index that joins the first basin after a second
\* basin has been found.
C2_Witness ==
    /\ self_expounded
    /\ Len(self_attractors) >= 2
    /\ \E x, y \in Indices :
          /\ y < x
          /\ self_basins[y] = 1
          /\ self_basins[x] = 0
          /\ ~Periodic(self_transitions, x)

\* C3: the recorded attractors are exactly the cycles of the table: members
\* pairwise distinct, closed under transitions, attractors pairwise
\* disjoint, every periodic index in exactly one of them, no transient in any.
C3_AttractorsAreTheCycles ==
    self_expounded =>
        LET n == Len(self_attractors) IN
        /\ \A a \in 1..n :
              /\ Len(self_attractors[a]) >= 1
              /\ Distinct(self_attractors[a])
              /\ \A m \in Members(self_attractors[a]) :
                    /\ m \in Indices
                    /\ self_transitions[m] \in Members(self_attractors[a])
                    /\ Periodic(self_transitions, m)
        /\ \A a, b \in 1..n :
              a # b => Members(self_attractors[a]) \cap Members(self_attractors[b]) = {}
        /\ \A j \in Indices :
              Periodic(self_transitions, j) =>
                  Cardinality({a \in 1..n : j \in Members(self_attractors[a])}) = 1

\* C3 witness: a cycle of two indices, a transient leading into it, and a
\* separate fixed point.
C3_Witness ==
    /\ self_expounded
    /\ Len(self_attractors) = 2
    /\ \E a \in 1..2 : Len(self_attractors[a]) = 2
    /\ \E x \in Indices : ~Periodic(self_transitions, x)

\* the decomposition has just collected a new cycle (the pop loop is over)
CycleCollected == pc = "scan" /\ Len(cycle) # 0

\* C4 as stated: the collected cycle starts at the terminus, each following
\* element is the successor of the one before, and the successor of the last
\* element is the terminus.
C4_CycleWalkedForward ==
    CycleCollected =>
        /\ cycle[1] = terminus
        /\ \A k \in 1..Len(cycle) - 1 : cycle[k + 1] = self_transitions[cycle[k]]
        /\ self_transitions[cycle[Len(cycle)]] = terminus

\* C4 amended: the cycle is collected by unwinding the path: its last element
\* is the terminus, the successor of each element after the first is the
\* element before it, and the successor of the first element is the
\* terminus; this sequence is what is recorded.
C4_CycleUnwoundToTerminus ==
    /\ CycleCollected =>
          /\ cycle[Len(cycle)] = terminus
          /\ \A k \in 1..Len(cycle) - 1 : self_transitions[cycle[k + 1]] = cycle[k]
          /\ self_transitions[cycle[1]] = terminus
    /\ (pc = "outer" /\ Len(cycle) # 0) =>
          /\ Len(attractors) >= 1
          /\ attractors[Len(attractors)] = cycle

\* C4 witness: a new cycle of three indices has been collected.
C4_Witness == CycleCollected /\ Len(cycle) = 3

\* the constructor has returned a Landscape
Constructed == pc \in {"ready", "done", "outer", "follow", "pop", "scan"}

\* C5: construction fills transitions, of length volume, with
\* encode(update(decode(i))) at every index i; each entry lies in [0, volume);
\* the update was invoked exactly once per state, volume times in total.
C5_TransitionsTable ==
    Constructed =>
        /\ DOMAIN self_transitions = Indices
        /\ \A x \in Indices :
              /\ self_transitions[x] =
                     unsafe_encode(self_bases,
                                   unsafe_update(net, decode(self_bases, x)))
              /\ self_transitions[x] \in Indices
        /\ Len(updated) = volume
        /\ \A v \in States(self_bases) :
              Cardinality({k \in 1..Len(updated) : updated[k] = v}) = 1

\* C5 witness: the two-node table [1, 3, 3, 3] has been built.
C5_Witness ==
    /\ pc = "ready"
    /\ self_bases = <<2, 2>>
    /\ self_transitions = [x \in 0..3 |-> IF x = 0 THEN 1 ELSE 3]

\* an access never changes transitions, and the cached decomposition never
\* changes once it is there
CacheStable ==
    /\ Constructed => self_transitions' = self_transitions
    /\ self_expounded =>
          /\ self_expounded'
          /\ self_attractors' = self_attractors
          /\ self_basins' = self_basins
          /\ expound_runs' = expound_runs

\* what holds of the lazy decomposition in every state
LazyOnce ==
    /\ Constructed => DOMAIN self_transitions = Indices
    /\ expound_runs <= 1
    /\ expound_runs >= 1 => demanded # "none"
    /\ self_expounded => expound_runs = 1
    /\ (pc = "done" /\ call.op \in {"transitions", "trajectory"}) =>
          (self_expounded <=> demanded # "none")
    /\ (pc = "done" /\ call.op = "transitions") =>
          ret = Returned("transitions", self_transitions)
    /\ (pc = "done" /\ call.op = "attractors") =>
          self_expounded /\ ret = Returned("attractors", self_attractors)
    /\ (pc = "done" /\ call.op = "basins") =>
          self_expounded /\ ret = Returned("basins", self_basins)

\* C6: transitions is there from construction on; the decomposition does not
\* run before the first access to attractors or basins (transitions and
\* trajectory never start it); it runs at most once; every access to
\* attractors or basins returns the cached values, which never change, and
\* no access changes transitions.
C6_LazyDecomposition == []LazyOnce /\ [][CacheStable]_vars

\* C6 witness: basins is read after attractors caused the decomposition, and
\* gets the cached value without a second run.
C6_Witness ==
    /\ pc = "done"
    /\ call.op = "basins"
    /\ demanded = "attractors"
    /\ expound_runs = 1
    /\ ret = Returned("basins", self_basins)
    /\ volume = 4

\* C7: until-repeat mode from a valid initial state returns the
\* repetition-free prefix of the orbit: it starts at the initial index, each
\* entry is followed by its successor, the entries are pairwise distinct,
\* the successor of the last entry is in the path, and there are at most
\* volume entries.
C7_UntilRepeatPath ==
    (TrajectoryDone /\ call.timesteps = None /\ ValidInit) =>
        /\ ReturnedPath
        /\ Len(RetIndices) >= 1
        /\ RetIndices[1] = InitIndex
        /\ \A k \in 1..Len(RetIndices) - 1 :
              RetIndices[k + 1] = self_transitions[RetIndices[k]]
        /\ Distinct(RetIndices)
        /\ InList(self_transitions[RetIndices[Len(RetIndices)]], RetIndices)
        /\ Len(RetIndices) <= volume

\* C7 witness: on the table [1, 3, 3, 3] the path from index 0 is [0, 1, 3].
C7_Witness ==
    /\ TrajectoryDone
    /\ call.timesteps = None
    /\ ~call.init.list
    /\ call.init.index = 0
    /\ self_transitions = [x \in 0..3 |-> IF x = 0 THEN 1 ELSE 3]
    /\ ret = Returned("path", <<0, 1, 3>>)

\* C8: fixed-step mode with s >= 1 steps returns s + 1 entries from a valid
\* initial state; entry 0 is the initial index and every later entry is
\* transitions applied to the entry before it, repeats included.
C8_FixedStepPath ==
    (TrajectoryDone /\ call.timesteps # None /\ call.timesteps[1] >= 1) =>
        /\ ValidInit => ReturnedPath
        /\ ReturnedPath =>
              /\ Len(RetIndices) = call.timesteps[1] + 1
              /\ RetIndices[1] = InitIndex
              /\ \A t \in 1..call.timesteps[1] :
                    RetIndices[t + 1] = np_item(self_transitions, RetIndices[t])

\* C8 witness: a fixed-step path that goes on after its first repetition.
C8_Witness ==
    /\ TrajectoryDone
    /\ call.timesteps = Some(MaxSteps)
    /\ ValidInit
    /\ ReturnedPath
    /\ RetIndices[2] = RetIndices[1]
    /\ RetIndices[3] = RetIndices[1]

\* the arguments C9 is about: a step count that is given and not positive,
\* or an empty initial vector
BadTrajectoryArgs ==
    \/ call.timesteps # None /\ call.timesteps[1] <= 0
    \/ call.init.list /\ call.init.state = <<>>

\* C9: trajectory raises ValueError and returns no path when the step count
\* is given and not positive, and when the initial state is an empty vector;
\* the call leaves transitions and the cached decomposition as they were.
C9_TrajectoryRejects ==
    /\ []((TrajectoryDone /\ BadTrajectoryArgs) =>
            ret.kind = "error" /\ ret.val = "ValueError")
    /\ [][(pc = "ready" /\ call'.op = "trajectory") =>
            UNCHANGED <<landscape, expound_runs>>]_vars

\* C9 witness: a call with zero steps on a decomposed Landscape was refused.
C9_Witness ==
    /\ TrajectoryDone
    /\ call.timesteps = Some(0)
    /\ ~call.init.list
    /\ call.init.index \in Indices
    /\ self_expounded
    /\ ret = Raised("ValueError", "number of steps must be positive, non-zero")

\* a size given for a fixed sized network, or none for a variable sized one
SizeMismatch ==
    /\ is_network(net)
    /\ \/ is_fixed_sized(net) /\ size # None
       \/ ~is_fixed_sized(net) /\ size = None

\* C10: Landscape(net, size) and transitions(net, size) with such a size
\* raise ValueError before any work: no state is enumerated, the update is
\* never invoked, no table is built.
C10_SizeMismatchRejected ==
    (SizeMismatch /\ pc # "new") =>
        /\ pc = "raised"
        /\ call.op \in {"Landscape", "transitions()", "attractors()", "basins()"}
        /\ ret.kind = "error" /\ ret.val = "ValueError"
        /\ updated = <<>>
        /\ it = Exhausted
        /\ self_transitions = <<>> /\ transitions = <<>> /\ yielded = <<>>
        /\ self_bases = <<>> /\ gen_space = <<>>

\* C10 witness: a Landscape was asked for with a size for a fixed sized
\* network of four states.
C10_Witness ==
    /\ pc = "raised"
    /\ call.op = "Landscape"
    /\ is_network(net) /\ is_fixed_sized(net)
    /\ size # None
    /\ Volume(net.bases) = 4
    /\ ret = Raised("ValueError", "size must be None for fixed sized networks")

\* __expound is running
Expounding == pc \in {"outer", "follow", "pop", "scan"}
\* the indices of the table being decomposed
WorkIndices == DOMAIN work.marks

\* what C14 says of marks and basin writes: at most one each per index, a
\* basin id is there exactly when it was written once, and after the run
\* every index was marked once and written once
OnceEach ==
    /\ \A x \in WorkIndices : work.marks[x] <= 1 /\ work.writes[x] <= 1
    /\ Expounding =>
          \A x \in WorkIndices :
              /\ visited[x] <=> work.marks[x] = 1
              /\ basins[x] # -1 <=> work.writes[x] = 1
    /\ self_expounded =>
          \A x \in WorkIndices : work.marks[x] = 1 /\ work.writes[x] = 1

\* C14 as stated: marks and basin writes happen once per index, no basin id
\* is overwritten, and pushes and pops together number at most volume.
C14_WorkWithinVolume ==
    /\ OnceEach
    /\ work.pushes + work.pops <= Cardinality(WorkIndices)

\* C14 amended: marks and basin writes happen once per index, no basin id is
\* overwritten; pops never exceed pushes, each numbers at most volume - 1,
\* and after the run both equal volume less the number of paths started.
C14_PushesAndPopsEachWithinVolume ==
    /\ OnceEach
    /\ work.pops <= work.pushes
    /\ Expounding =>
          /\ work.pushes <= Cardinality(WorkIndices) - 1
          /\ work.pushes - work.pops = Len(state_stack)
    /\ self_expounded =>
          /\ work.pushes = Cardinality(WorkIndices) - work.paths
          /\ work.pops = work.pushes

\* C14 witness: a run over four indices is over with three pushes and three
\* pops.
C14_Witness ==
    /\ self_expounded
    /\ Cardinality(WorkIndices) = 4
    /\ work.pushes = 3
    /\ work.pops = 3

\* at the head of an outer iteration of __expound
OuterHead == pc = "outer"

\* what C15 says of the head of every outer iteration
HeadInvariant ==
    OuterHead =>
        /\ \A x \in 0..initial_state - 1 : visited[x]
        /\ \/ initial_state = volume
           \/ initial_state \in Indices /\ ~visited[initial_state]
        /\ \A x \in Indices : visited[x] <=> basins[x] # -1

\* a terminus without a basin lies on the current path
TerminusOnPath ==
    (pc = "follow" /\ visited[next_state] /\ basins[next_state] = -1) =>
        next_state \in Members(state_stack) \cup {state}

\* the scan pointer does not go back while __expound runs
ScanForward == (Expounding /\ Expounding') => initial_state' >= initial_state

\* C15: at the head of every outer iteration all indices below the scan
\* pointer are visited, the pointer is volume or an unvisited index, and an
\* index is visited iff it has a basin; a terminus without a basin is on the
\* current path; the pointer never decreases.
C15_OuterLoopInvariant ==
    [](HeadInvariant /\ TerminusOnPath) /\ [][ScanForward]_vars

\* C15 witness: the head of an outer iteration with the pointer at 2 and an
\* index above it already visited.
C15_Witness ==
    /\ OuterHead
    /\ initial_state = 2
    /\ \E x \in Indices : x > initial_state /\ visited[x]

\* the decomposition has returned
Decomposed == pc = "done" /\ self_expounded

\* what C16 bounds: the outer loop has started at most volume paths, and when
\* it ends the scan pointer is the volume and every index is visited
RunBounded ==
    /\ work.paths <= Cardinality(WorkIndices)
    /\ work.pushes <= Cardinality(WorkIndices)
    /\ (OuterHead /\ ~(initial_state < volume)) =>
          /\ initial_state = volume
          /\ \A x \in Indices : visited[x]
    /\ Expounding => \A x \in Indices : self_transitions[x] \in Indices

\* C16: a running decomposition always returns, whatever the table; the
\* follow, pop and scan loops each come to an end, the outer loop starts at
\* most volume paths, and it ends with the scan pointer at volume and every
\* index visited.
C16_DecompositionTerminates ==
    /\ []RunBounded
    /\ Expounding ~> Decomposed
    /\ (pc = "follow") ~> (pc = "pop")
    /\ (pc = "pop") ~> (pc = "scan")
    /\ (pc = "scan") ~> (pc = "outer")

\* C16 witness: a decomposition of four indices has returned in which three
\* paths merged into the first.
C16_Witness ==
    /\ Decomposed
    /\ Cardinality(WorkIndices) = 4
    /\ work.paths = 4
    /\ Len(self_attractors) = 1

\* the smallest index of basin b
MinIndex(b) == CHOOSE x \in Indices :
    self_basins[x] = b /\ \A y \in Indices : self_basins[y] = b => x <= y

\* the largest basin id below index x, -1 when x = 0
MaxBelow(x) ==
    IF x = 0 THEN -1
    ELSE CHOOSE m \in {self_basins[y] : y \in 0..x - 1} :
            \A y \in 0..x - 1 : self_basins[y] <= m

\* C19: basin ids follow the basins' smallest indices: basins[0] = 0, the
\* smallest index of basin b lies above that of basin b - 1, every basins[i]
\* is at most one more than the largest id below i, and attractors[b] is the
\* cycle reached from the smallest index of basin b.
C19_BasinsNumberedBySmallestIndex ==
    self_expounded =>
        /\ self_basins[0] = 0
        /\ \A b \in 1..Len(self_attractors) - 1 : MinIndex(b) > MinIndex(b - 1)
        /\ \A x \in Indices : self_basins[x] <= 1 + MaxBelow(x)
        /\ \A b \in 0..Len(self_attractors) - 1 :
              Iterate(self_transitions, MinIndex(b), volume)
                  \in Members(self_attractors[b + 1])

\* C19 witness: three basins, the second of which starts at a transient.
C19_Witness ==
    /\ self_expounded
    /\ Len(self_attractors) = 3
    /\ ~Periodic(self_transitions, MinIndex(1))

\* C20: a trajectory call with an integer initial state either raises or
\* returns a path whose entries are all indices of [0, volume); an index
\* outside [0, volume) is never accepted.
C20_IntegerInitInRange ==
    (TrajectoryDone /\ ~call.init.list /\ ReturnedPath) =>
        /\ call.init.index \in Indices
        /\ \A k \in 1..Len(ret.val) :
              ret.kind = "path" => ret.val[k] \in Indices

\* the legacy attractors(net, size) is running
LegacyRunning == pc \in {"legacy_outer", "legacy_follow", "legacy_pop", "legacy_scan"}

\* C18: list(attractors(net, size)) is the same sequence of cycles as
\* Landscape(net, size).attractors: as many cycles, in the same order, each
\* with its members in the same order; while the legacy loop runs, what it
\* has yielded is the beginning of that sequence.
C18_LegacyAttractorsAgree ==
    /\ (pc = "done" /\ call.op = "attractors()" /\ self_expounded) =>
          ret = Returned("attractors()", self_attractors)
    /\ (LegacyRunning /\ self_expounded) =>
          /\ Len(yielded) <= Len(self_attractors)
          /\ yielded = SubSeq(self_attractors, 1, Len(yielded))
          /\ basin_number = 1

\* C18 witness: the legacy function has returned a fixed point and then a
\* cycle of three states, on a Landscape that holds its own attractors.
C18_Witness ==
    /\ pc = "done"
    /\ call.op = "attractors()"
    /\ self_expounded
    /\ Len(ret.val) = 2
    /\ Len(ret.val[1]) = 1
    /\ Len(ret.val[2]) = 3

\* basins() has returned to the holder of a decomposed Landscape
FreeBasinsDone == pc = "done" /\ call.op = "basins()" /\ self_expounded

\* the indices the Landscape puts in basin b
BasinClass(b) == {x \in Indices : self_basins[x] = b}

RECURSIVE SumCard(_)
\* the sizes of the sets in S, added up
SumCard(S) ==
    IF S = {} THEN 0
    ELSE LET c == CHOOSE d \in S : TRUE IN Cardinality(c) + SumCard(S \ {c})

\* C11: the weakly connected components of the graph i -> transitions[i],
\* which the free basins returns, are exactly the Landscape's basin classes;
\* there are as many components as attractors, and their sizes sum to volume.
C11_ComponentsAreBasins ==
    FreeBasinsDone =>
        /\ ret.val = {BasinClass(b) : b \in 0..Len(self_attractors) - 1}
        /\ Cardinality(ret.val) = Len(self_attractors)
        /\ SumCard(ret.val) = volume

\* C11 witness: basins() has returned two components over four indices, one
\* of them with a transient.
C11_Witness ==
    /\ FreeBasinsDone
    /\ volume = 4
    /\ Cardinality(ret.val) = 2
    /\ \E c \in ret.val : \E x \in c : ~Periodic(self_transitions, x)

\* C12: attractors(net, size) with a networkx DiGraph and a size raises
\* ValueError and yields no attractor.
C12_DiGraphWithSizeRejected ==
    (call.op = "attractors()" /\ is_digraph(net) /\ size # None) =>
        /\ pc = "raised"
        /\ ret.kind = "error"
        /\ ret.val = "ValueError"

\* random_logic was called with 'free' on a LogicNetwork and a fitting p
FreeAsked ==
    /\ rcall.via = "random_logic"
    /\ rcall.connections = "free"
    /\ logic_net.islogic
    /\ ps = None \/ ps = Some(logic_net.size)

\* C13: random_logic(logic_net, connections='free') does not end in an error:
\* it returns a network of as many nodes, each with between 1 and size inputs.
C13_FreeReturnsNetwork ==
    FreeAsked =>
        /\ rpc = "returned"
        /\ Len(new_table) = logic_net.size
        /\ \A k \in 1..Len(new_table) : new_table[k].n_indices \in 1..logic_net.size

\* the rejection loop's exception has been raised
GivenUp == rpc = "raised" /\ rret.kind = "error" /\ rret.val = "Exception"

\* C17: the rejection loop's exception is raised only if none of the
\* give_up_number candidates satisfied the constraints: never after a
\* candidate was accepted, the last one included.
C17_RaisedOnlyWhenNoneAccepted == GivenUp => keep_trying

====
